---- MODULE Spec2Model ----
(***************************************************************************)
(* A model of dropBoxCLI.py: the navigation loop (interactive_explorer),   *)
(* the listing service (list_folder_contents), the shallow statistics      *)
(* (get_folder_stats), the capped breadth-first traversal                  *)
(* (get_detailed_stats), the size formatter (format_file_size), the member *)
(* selection (select_team_member) and the startup (main).                  *)
(*                                                                         *)
(* Strings are sequences of one-character strings, so that strip, lower,  *)
(* startswith, slicing, int() and os.path.dirname are modelled by what    *)
(* they do.  The path "/a/b" is <<"/","a","/","b">> and the root "" is    *)
(* <<>>.                                                                   *)
(***************************************************************************)
EXTENDS Integers, Sequences, FiniteSets, TLC

VARIABLES
    \* the remote account (the external storage API's state)
    layout,             \* the children every folder of the remote tree holds
    nfolders,           \* how many folders the remote tree has, the root included
    failing,            \* paths whose listing raises dropbox.exceptions.ApiError
    \* interactive_explorer
    pc,                 \* where the program stands
    current_path,       \* interactive_explorer's current_path
    quick,              \* stats, the result of get_folder_stats
    folders,            \* folders, as list_folder_contents returned them
    files,              \* files, as list_folder_contents returned them
    cmd,                \* cmd, the last command read (stripped); choice, as typed
    iter_path,          \* current_path as it was when this iteration listed it
    screen,             \* the lines printed since the screen was cleared
    \* history of interactive_explorer (not program state)
    last,               \* the step taken last
    returned,           \* the folder entries the listing calls returned, by place
    \* get_detailed_stats
    folders_to_process, \* the FIFO queue
    processed_count,
    stats,              \* total_folders, total_files, total_size, file_types, largest_files
    entries,            \* the entries of the folder being processed
    next_entry,         \* the for loop's position in entries
    \* history of get_detailed_stats (not program state)
    fetched,            \* the paths dequeued and fetched so far, by place
    refetched,          \* how many dequeues took a path fetched before
    reenqueued,         \* how many enqueues added a path enqueued before
    seen_sizes,         \* how many files of each size were processed so far
    last_failed,        \* the fetch of the last dequeued folder raised ApiError
    \* list_folder_contents
    list_max,           \* its max_items argument
    \* format_file_size
    size_arg,           \* the argument it was called with (history)
    size_bytes,         \* size_bytes, as the loop divides it
    unit,               \* the position of the for loop in the unit list
    formatted,          \* the string returned: magnitude to one decimal, and unit
    \* main and select_team_member
    creds_ok,           \* the credentials of the environment make a client
    team_kind,          \* the token is a team's ("team") or one account's ("individual")
    team_members,       \* the members of the team, as the remote lists them
    broken,             \* paths whose listing raises an exception that is no ApiError
    members,            \* members, as list_team_members returned them last
    client,             \* the handle in use: "none", a member's, or "individual"
    outcome             \* how main ended (history)

vars == <<layout, nfolders, failing, pc, current_path, quick, folders, files, cmd,
          iter_path, screen, last, returned, folders_to_process, processed_count, stats,
          entries, next_entry, fetched, refetched, reenqueued, seen_sizes,
          last_failed, list_max, size_arg, size_bytes, unit, formatted,
          creds_ok, team_kind, team_members, broken, members, client, outcome>>

remoteVars == <<layout, nfolders, failing>>
navVars == <<current_path, quick, folders, files, cmd, iter_path>>
statsVars == <<folders_to_process, processed_count, stats, entries, next_entry,
               fetched, refetched, reenqueued, seen_sizes, last_failed>>
listVars == <<list_max>>
fmtVars == <<size_arg, size_bytes, unit, formatted>>
mainVars == <<creds_ok, team_kind, team_members, broken, members, client, outcome>>

----------------------------------------------------------------------------
(* Bounds of the model and constants of the program *)

MaxEntries == 2
MaxFolders == 4
FolderCap == 1000
TopK == 10
MaxItems == 50
Kilo == 1024
MaxListed == 4
MaxShown == 3
MaxLimbs == 2
MaxShift == 5
MaxMembers == 2
MaxPrompts == 3

----------------------------------------------------------------------------
(* Characters and strings *)

UpperChars == <<"A","B","C","D","E","F","G","H","I","J","K","L","M",
                "N","O","P","Q","R","S","T","U","V","W","X","Y","Z">>
LowerChars == <<"a","b","c","d","e","f","g","h","i","j","k","l","m",
                "n","o","p","q","r","s","t","u","v","w","x","y","z">>
DigitChars == <<"0","1","2","3","4","5","6","7","8","9">>

\* The characters of the model in code point order: str comparison is by code point.
CodePoints == <<" ", "+", "-", ".", "/">> \o DigitChars \o UpperChars
              \o <<"_">> \o LowerChars

Ord(c) == CHOOSE i \in 1..Len(CodePoints) : CodePoints[i] = c

Range(s) == {s[i] : i \in 1..Len(s)}

\* str.lower(), one character
LowerChar(c) ==
    IF \E i \in 1..26 : UpperChars[i] = c
    THEN LowerChars[CHOOSE i \in 1..26 : UpperChars[i] = c]
    ELSE c

\* str.lower()
Lower(s) == [i \in 1..Len(s) |-> LowerChar(s[i])]

\* str < str: lexicographic by code point
StrLess(s, t) ==
    \E k \in 1..(Len(t)) :
        /\ \A j \in 1..(k - 1) : j <= Len(s) /\ s[j] = t[j]
        /\ k - 1 <= Len(s)
        /\ (k > Len(s) \/ Ord(s[k]) < Ord(t[k]))

\* str.strip(): leading and trailing spaces removed
Strip(s) ==
    LET keep == {i \in 1..Len(s) : s[i] # " "}
    IN  IF keep = {} THEN <<>>
        ELSE LET lo == CHOOSE i \in keep : \A j \in keep : i <= j
                 hi == CHOOSE i \in keep : \A j \in keep : j <= i
             IN  SubSeq(s, lo, hi)

\* str.startswith(prefix)
StartsWith(s, prefix) ==
    Len(s) >= Len(prefix) /\ SubSeq(s, 1, Len(prefix)) = prefix

\* s[n:]
DropFirst(s, n) == SubSeq(s, n + 1, Len(s))

\* int(s) succeeds: an optional sign and at least one digit
IsIntLiteral(s) ==
    LET body == IF s # <<>> /\ s[1] \in {"+", "-"} THEN Tail(s) ELSE s
    IN  body # <<>> /\ \A i \in 1..Len(body) : body[i] \in Range(DigitChars)

DigitValue(c) == (CHOOSE i \in 1..10 : DigitChars[i] = c) - 1

RECURSIVE DigitsValue(_)
DigitsValue(s) ==
    IF s = <<>> THEN 0
    ELSE 10 * DigitsValue(SubSeq(s, 1, Len(s) - 1)) + DigitValue(s[Len(s)])

\* int(s), for s with IsIntLiteral(s)
IntValue(s) ==
    IF s[1] = "-" THEN 0 - DigitsValue(Tail(s))
    ELSE IF s[1] = "+" THEN DigitsValue(Tail(s))
    ELSE DigitsValue(s)

\* os.path.dirname (posixpath): everything up to the last "/", with the
\* trailing slashes removed unless the head is nothing but slashes
dirname(p) ==
    LET slashes == {i \in 1..Len(p) : p[i] = "/"}
        i == IF slashes = {} THEN 0
             ELSE CHOOSE k \in slashes : \A j \in slashes : j <= k
        head == SubSeq(p, 1, i)
        nonSlash == {k \in 1..Len(head) : head[k] # "/"}
    IN  IF head # <<>> /\ nonSlash # {}
        THEN SubSeq(head, 1, CHOOSE k \in nonSlash : \A j \in nonSlash : j <= k)
        ELSE head

----------------------------------------------------------------------------
(* The remote account: a folder tree in which every folder holds the files *)
(* `layout` names, and the sub-folders `layout` names as far as the tree   *)
(* has folders: its folders are the first `nfolders`, in breadth-first     *)
(* order, of the tree in which every folder holds them all.  The listing   *)
(* of a path in `failing` raises ApiError.  Sibling names differ ignoring  *)
(* case, and folder names are single characters.                           *)

FolderNames == {<<"a">>, <<"B">>, <<"b">>}
FileNames == {<<"x", ".", "T">>}
FileSizes == {2}

Folder(n) == [kind |-> "folder", name |-> n, size |-> 0]
File(n, s) == [kind |-> "file", name |-> n, size |-> s]

Templates == {Folder(n) : n \in FolderNames}
             \cup {File(n, s) : n \in FileNames, s \in FileSizes}

DistinctNames(s) ==
    \A i, j \in 1..Len(s) : i # j => Lower(s[i].name) # Lower(s[j].name)

Layouts == {s \in UNION {[1..n -> Templates] : n \in 0..MaxEntries} :
                DistinctNames(s)}

FailChoices == SUBSET {<<>>, <<"/", "a">>}

FolderTemplates == SelectSeq(layout, LAMBDA t : t.kind = "folder")

Width == Len(FolderTemplates)

FolderLowers == {Lower(FolderTemplates[j].name) : j \in 1..Width}

\* the place of the sub-folder named c among a folder's sub-folders
FolderPos(c) == CHOOSE j \in 1..Width : Lower(FolderTemplates[j].name) = <<c>>

\* path is the root, or "/" and a folder name, repeated
WellFormed(path) ==
    /\ Len(path) % 2 = 0
    /\ \A i \in 1..Len(path) :
          IF i % 2 = 1 THEN path[i] = "/" ELSE <<path[i]>> \in FolderLowers

\* the place of the j-th sub-folder of the folder at place k, in breadth-first order
ChildIndex(k, j) == Width * (k - 1) + 1 + j

\* the place of a well-formed path in breadth-first order; the root's is 1
RECURSIVE FolderIndex(_)
FolderIndex(path) ==
    IF path = <<>> THEN 1
    ELSE ChildIndex(FolderIndex(SubSeq(path, 1, Len(path) - 2)),
                    FolderPos(path[Len(path)]))

\* path names a folder of the remote tree
IsFolderPath(path) == WellFormed(path) /\ FolderIndex(path) <= nfolders

\* the place of the folder that path names, 0 for a path that names none
PathId(path) == IF IsFolderPath(path) THEN FolderIndex(path) ELSE 0

\* One entry of a listing: FolderMetadata or FileMetadata
Entry(path, t) ==
    [kind |-> t.kind, name |-> t.name,
     path_lower |-> path \o <<"/">> \o Lower(t.name), size |-> t.size]

\* dbx.files_list_folder(path): the entries, or an ApiError
files_list_folder(path) ==
    IF path \in failing \/ ~IsFolderPath(path)
    THEN [ok |-> FALSE, entries |-> <<>>]
    ELSE LET k == FolderIndex(path)
             present == SelectSeq(layout,
                 LAMBDA t : \/ t.kind = "file"
                            \/ ChildIndex(k, FolderPos(Lower(t.name)[1])) <= nfolders)
         IN  [ok |-> TRUE,
              entries |-> [i \in 1..Len(present) |-> Entry(path, present[i])]]

----------------------------------------------------------------------------
(* format_file_size.  A byte count is written in base 1024, the most       *)
(* significant limb first and without leading zeros: 1536 is <<1, 512>>    *)
(* and 0 is <<>>.  size_bytes is [int, frac], the limbs before and after   *)
(* the point, so that size_bytes / 1024.0 moves one limb across the point. *)
(* A float holds such a value exactly while the byte count has at most 53  *)
(* significant bits, which every byte count of SizeArgs has.               *)

Units == <<"B", "KB", "MB", "GB", "TB">>

Limbs == {0, 1, 256, 512, 768, Kilo - 1}

Zeros(k) == [i \in 1..k |-> 0]

\* the byte counts format_file_size is called with: up to MaxLimbs limbs,
\* times 1024 up to MaxShift times
SizeArgs ==
    {h \o Zeros(k) :
        h \in {x \in UNION {[1..n -> Limbs] : n \in 1..MaxLimbs} : x[1] # 0},
        k \in 0..MaxShift} \cup {<<>>}

\* BelowKilo with 1024 itself let through
BelowKilo_Inclusive(sb) ==
    \/ Len(sb.int) <= 1
    \/ sb.int = <<1, 0>> /\ \A i \in 1..Len(sb.frac) : sb.frac[i] = 0

\* line 17: size_bytes < 1024.0
BelowKilo(sb) == Len(sb.int) <= 1

\* line 19: size_bytes /= 1024.0
DivideByKilo(sb) ==
    IF sb.int = <<>>
    THEN [int |-> <<>>, frac |-> <<0>> \o sb.frac]
    ELSE [int |-> SubSeq(sb.int, 1, Len(sb.int) - 1),
          frac |-> <<sb.int[Len(sb.int)]>> \o sb.frac]

\* ten times a fraction: the digit before the point, and the fraction left
RECURSIVE TimesTen(_)
TimesTen(f) ==
    IF f = <<>> THEN [carry |-> 0, rest |-> <<>>]
    ELSE LET t == TimesTen(Tail(f))
             v == f[1] * 10 + t.carry
         IN  [carry |-> v \div Kilo, rest |-> <<v % Kilo>> \o t.rest]

\* a whole number plus one
RECURSIVE AddOne(_)
AddOne(w) ==
    IF w = <<>> THEN <<1>>
    ELSE IF w[Len(w)] < Kilo - 1
    THEN SubSeq(w, 1, Len(w) - 1) \o <<w[Len(w)] + 1>>
    ELSE AddOne(SubSeq(w, 1, Len(w) - 1)) \o <<0>>

\* f"{size_bytes:.1f}": the nearest number with one decimal, a tie going to
\* the even decimal
OneDecimal(sb) ==
    LET t == TimesTen(sb.frac)
        r == t.rest
        above == r # <<>> /\ (\/ 2 * r[1] > Kilo
                              \/ 2 * r[1] = Kilo /\ \E i \in 2..Len(r) : r[i] # 0)
        half == r # <<>> /\ 2 * r[1] = Kilo /\ \A i \in 2..Len(r) : r[i] = 0
        tenth == IF above \/ (half /\ t.carry % 2 = 1) THEN t.carry + 1 ELSE t.carry
    IN  IF tenth = 10 THEN [whole |-> AddOne(sb.int), tenth |-> 0]
        ELSE [whole |-> sb.int, tenth |-> tenth]

\* lines 18 and 20: the string returned
Formatted(sb, u) ==
    [whole |-> OneDecimal(sb).whole, tenth |-> OneDecimal(sb).tenth, unit |-> u]

NoText == [whole |-> <<>>, tenth |-> 0, unit |-> ""]

----------------------------------------------------------------------------
(* Output *)

Line(kind, text, n) == [kind |-> kind, text |-> text, n |-> n]

HasLine(lines, kind) == \E i \in 1..Len(lines) : lines[i].kind = kind

----------------------------------------------------------------------------
(* list_folder_contents and get_folder_stats *)

IsFolder(e) == e.kind = "folder"
IsFile(e) == e.kind = "file"

\* NameKey taking the name as it is written
NameKey_AsWritten(e) == e.name

\* the sort key of lines 28 and 29
NameKey(e) == Lower(e.name)

\* sorted(..., key=lambda e: e.name.lower()): a stable insertion sort
RECURSIVE SortedByName(_)
SortedByName(s) ==
    IF s = <<>> THEN <<>>
    ELSE LET rest == SortedByName(SubSeq(s, 1, Len(s) - 1))
             x == s[Len(s)]
             k == Cardinality({i \in 1..Len(rest) :
                                  ~StrLess(NameKey(x), NameKey(rest[i]))})
         IN  SubSeq(rest, 1, k) \o <<x>> \o SubSeq(rest, k + 1, Len(rest))

\* Truncate showing every entry
Truncate_All(s, n) == s

\* all_entries[:max_items]
Truncate(s, n) == SubSeq(s, 1, IF Len(s) < n THEN Len(s) ELSE n)

\* the lines list_folder_contents prints for the entries shown
EntryLines(shown) ==
    [i \in 1..Len(shown) |->
        Line(IF IsFolder(shown[i]) THEN "entry_folder" ELSE "entry_file",
             shown[i].name, i)]

\* list_folder_contents leaving the previous listing in place on an ApiError
list_folder_contents_Stale(path, max_items) ==
    LET r == files_list_folder(path)
    IN  IF r.ok
        THEN LET fo == SortedByName(SelectSeq(r.entries, IsFolder))
                 fi == SortedByName(SelectSeq(r.entries, IsFile))
             IN  [folders |-> fo, files |-> fi,
                  printed |-> EntryLines(Truncate(fo \o fi, max_items))]
        ELSE [folders |-> folders, files |-> files,
              printed |-> <<Line("error_listing", path, 0)>>]

\* list_folder_contents(dbx, path, max_items): what it returns and prints
list_folder_contents(path, max_items) ==
    LET r == files_list_folder(path)
    IN  IF r.ok
        THEN LET fo == SortedByName(SelectSeq(r.entries, IsFolder))
                 fi == SortedByName(SelectSeq(r.entries, IsFile))
                 all_entries == fo \o fi
                 shown_entries == Truncate(all_entries, max_items)
             IN  [folders |-> fo, files |-> fi,
                  printed |-> EntryLines(shown_entries) \o
                      (IF Len(all_entries) > max_items
                       THEN <<Line("more", <<>>, Len(all_entries) - max_items)>>
                       ELSE <<>>)]
        ELSE [folders |-> <<>>, files |-> <<>>,
              printed |-> <<Line("error_listing", path, 0)>>]

RECURSIVE SumSizes(_)
SumSizes(s) == IF s = <<>> THEN 0 ELSE s[1].size + SumSizes(Tail(s))

NoStats == [error |-> FALSE, folders |-> 0, files |-> 0, total_size |-> 0]

\* get_folder_stats(dbx, path): what it returns and prints
get_folder_stats(path) ==
    LET r == files_list_folder(path)
    IN  IF r.ok
        THEN [stats |-> [error |-> FALSE,
                         folders |-> Len(SelectSeq(r.entries, IsFolder)),
                         files |-> Len(SelectSeq(r.entries, IsFile)),
                         total_size |-> SumSizes(SelectSeq(r.entries, IsFile))],
              printed |-> <<>>]
        ELSE [stats |-> [error |-> TRUE, folders |-> 0, files |-> 0,
                         total_size |-> 0],
              printed |-> <<Line("error_stats", path, 0)>>]

----------------------------------------------------------------------------
(* interactive_explorer: the command dispatch *)

Exit == <<"e", "x", "i", "t">>
Stats == <<"s", "t", "a", "t", "s">>
CdPrefix == <<"c", "d", " ">>
DotDot == <<".", ".">>

\* The lines the user may type at "Enter command: "
Inputs == {
    Exit, <<"E", "X", "I", "T">>, <<" ", "e", "x", "i", "t", " ">>,
    Stats, <<"S", "t", "a", "t", "s">>,
    <<"c", "d", " ", ".", ".">>, <<"C", "D", " ", ".", ".">>,
    <<"c", "d", " ", "0">>, <<"c", "d", " ", "1">>, <<"c", "d", " ", "2">>,
    <<"c", "d", " ", "3">>, <<"c", "d", " ", "-", "1">>,
    <<"C", "d", " ", "1">>,
    <<"c", "d", " ", "a">>, <<"c", "d", " ", "A">>, <<"c", "d", " ", "b">>,
    <<"c", "d", " ", " ", "B">>, <<"c", "d", " ", "x", ".", "t">>,
    <<"C", "D", " ", "a">>,
    <<"c", "d">>, <<"l", "s">>, <<>> }

\* line 138: cmd = input("\nEnter command: ").strip(), for every line
Commands == {Strip(line) : line \in Inputs}

\* cmd.lower() == "exit"
IsExit(c) == Lower(c) = Exit

\* cmd.lower() == "stats"
IsStats(c) == Lower(c) = Stats

\* cmd.startswith("cd ")
IsCd(c) == StartsWith(c, CdPrefix)

\* target = cmd[3:].strip()
Target(c) == Strip(DropFirst(c, 3))

\* lines 166-167: the path `cd ..` leaves
CdUp(path) == IF path # <<>> THEN dirname(path) ELSE path

\* ValidIndex with the first folder left out
ValidIndex_FromSecond(fs, index) == 1 <= index /\ index < Len(fs)

\* line 173: 0 <= index < len(folders), for index = int(target) - 1
ValidIndex(fs, index) == 0 <= index /\ index < Len(fs)

\* NameMatches comparing the names as they are written
NameMatches_CaseSensitive(fs, target) ==
    {i \in 1..Len(fs) : fs[i].name = target}

\* lines 181-185: the positions of the folders the name matches
NameMatches(fs, target) ==
    {i \in 1..Len(fs) : Lower(fs[i].name) = Lower(target)}

\* the first of them
FirstMatch(fs, target) ==
    CHOOSE i \in NameMatches(fs, target) : \A j \in NameMatches(fs, target) : i <= j

\* PathByName going to the typed name when no folder matches
PathByName_Unchecked(fs, target, path) ==
    IF NameMatches(fs, target) # {}
    THEN fs[FirstMatch(fs, target)].path_lower
    ELSE path \o <<"/">> \o Lower(target)

\* lines 180-185: current_path after `cd <name>`
PathByName(fs, target, path) ==
    IF NameMatches(fs, target) # {}
    THEN fs[FirstMatch(fs, target)].path_lower
    ELSE path

----------------------------------------------------------------------------
(* get_detailed_stats: the pieces of one loop iteration *)

NoExtension == <<"n", "o", "_", "e", "x", "t", "e", "n", "s", "i", "o", "n">>

\* os.path.splitext(name)[1]: from the last dot, unless only dots precede it
splitext(name) ==
    LET dots == {i \in 1..Len(name) : name[i] = "."}
        seps == {i \in 1..Len(name) : name[i] = "/"}
        lastOf(S) == IF S = {} THEN 0 ELSE CHOOSE k \in S : \A j \in S : j <= k
        dot == lastOf(dots)
        sep == lastOf(seps)
    IN  IF dot > sep /\ \E k \in (sep + 1)..(dot - 1) : name[k] # "."
        THEN SubSeq(name, dot, Len(name))
        ELSE <<>>

\* lines 224-228: the histogram key of a file name
FileTypeKey(name) ==
    LET file_ext == splitext(Lower(name))
    IN  IF file_ext # <<>> THEN file_ext ELSE NoExtension

\* Counter()[key] += 1
Increment(counter, key) ==
    IF key \in DOMAIN counter
    THEN [counter EXCEPT ![key] = @ + 1]
    ELSE counter @@ (key :> 1)

\* sorted(..., key=lambda x: x["size"], reverse=True): stable, descending
RECURSIVE SortedBySizeDesc(_)
SortedBySizeDesc(s) ==
    IF s = <<>> THEN <<>>
    ELSE LET rest == SortedBySizeDesc(SubSeq(s, 1, Len(s) - 1))
             x == s[Len(s)]
             k == Cardinality({i \in 1..Len(rest) : rest[i].size >= x.size})
         IN  SubSeq(rest, 1, k) \o <<x>> \o SubSeq(rest, k + 1, Len(rest))

\* TrackLargest cutting the list to ten before the new file is sorted in
TrackLargest_TruncateFirst(largest_files, entry) ==
    LET file_info == [name |-> entry.name, path |-> entry.path_lower,
                      size |-> entry.size]
    IN  SortedBySizeDesc(Truncate(Append(largest_files, file_info), TopK))

\* lines 231-241: largest_files after one more file
TrackLargest(largest_files, entry) ==
    LET file_info == [name |-> entry.name, path |-> entry.path_lower,
                      size |-> entry.size]
    IN  Truncate(SortedBySizeDesc(Append(largest_files, file_info)), TopK)

\* lines 195-201
EmptyStats == [total_folders |-> 0, total_files |-> 0, total_size |-> 0,
               file_types |-> <<>>, largest_files |-> <<>>]

\* CountEntry leaving the folders uncounted
CountEntry_FilesOnly(st, entry) ==
    IF IsFolder(entry)
    THEN st
    ELSE [st EXCEPT !.total_files = @ + 1,
                    !.total_size = @ + entry.size,
                    !.file_types = Increment(@, FileTypeKey(entry.name)),
                    !.largest_files = TrackLargest(@, entry)]

\* lines 217 and 220-241: stats after one entry
CountEntry(st, entry) ==
    IF IsFolder(entry)
    THEN [st EXCEPT !.total_folders = @ + 1]
    ELSE [st EXCEPT !.total_files = @ + 1,
                    !.total_size = @ + entry.size,
                    !.file_types = Increment(@, FileTypeKey(entry.name)),
                    !.largest_files = TrackLargest(@, entry)]

\* Enqueue appending a folder twice
Enqueue_Twice(queue, entry) ==
    IF IsFolder(entry)
    THEN Append(Append(queue, entry.path_lower), entry.path_lower)
    ELSE queue

\* line 218: the queue after one entry
Enqueue(queue, entry) ==
    IF IsFolder(entry) THEN Append(queue, entry.path_lower) ELSE queue

\* lines 243-244: the queue after a fetch that raised ApiError; the except
\* clause prints and the loop goes on with the folders still queued
AfterFetchError_Abort(queue) == <<>>

AfterFetchError(queue) == queue

\* LoopGoesOn letting one folder more through
LoopGoesOn_OneMore(queue, count) == queue # <<>> /\ count <= FolderCap

\* line 208: the loop goes on
LoopGoesOn(queue, count) == queue # <<>> /\ count < FolderCap

\* line 246: the note is printed
NoteDue(count) == count >= FolderCap

----------------------------------------------------------------------------
(* interactive_explorer: one action per step of the loop *)

\* the paths of the folder entries of a listing
FolderPaths(es) ==
    {PathId(es[i].path_lower) : i \in {k \in 1..Len(es) : IsFolder(es[k])}}

\* get_detailed_stats is not running
StatsIdle ==
    /\ folders_to_process = <<>>
    /\ processed_count = 0
    /\ stats = EmptyStats
    /\ entries = <<>>
    /\ next_entry = 0
    /\ fetched = {}
    /\ refetched = 0
    /\ reenqueued = 0
    /\ seen_sizes = <<>>
    /\ last_failed = FALSE

\* list_folder_contents is called with its default max_items
ListIdle == list_max = MaxItems

\* format_file_size is not running
FormatIdle ==
    /\ size_arg = <<>>
    /\ size_bytes = [int |-> <<>>, frac |-> <<>>]
    /\ unit = 0
    /\ formatted = NoText

\* interactive_explorer runs on the handle of one account whose remote calls
\* raise nothing but ApiError
MainIdle ==
    /\ creds_ok = TRUE
    /\ team_kind = "individual"
    /\ team_members = <<>>
    /\ broken = {}
    /\ members = <<>>
    /\ client = "individual"
    /\ outcome = "running"

\* lines 116-135: clear the screen, show the path, the quick stats and the listing
Iterate ==
    /\ pc = "top"
    /\ current_path \notin broken
    /\ last' = "Iterate"
    /\ returned' = returned \cup FolderPaths(files_list_folder(current_path).entries)
    /\ LET q == get_folder_stats(current_path)
           l == list_folder_contents(current_path, MaxItems)
       IN  /\ quick' = q.stats
           /\ folders' = l.folders
           /\ files' = l.files
           /\ screen' = <<Line("current_path",
                               IF current_path # <<>> THEN current_path
                               ELSE <<"/">>, 0)>>
                        \o q.printed
                        \o <<Line("contents", <<>>, q.stats.folders)>>
                        \o l.printed
    /\ iter_path' = current_path
    /\ pc' = "prompt"
    /\ UNCHANGED <<current_path, cmd>>
    /\ UNCHANGED remoteVars
    /\ UNCHANGED <<listVars, fmtVars, mainVars>>
    /\ UNCHANGED statsVars

\* lines 138-141: exit
CmdExit ==
    /\ pc = "prompt"
    /\ last' = "CmdExit"
    /\ UNCHANGED returned
    /\ \E c \in Commands :
          /\ IsExit(c)
          /\ cmd' = c
    /\ pc' = "exited"
    /\ UNCHANGED <<current_path, quick, folders, files, iter_path, screen>>
    /\ UNCHANGED remoteVars
    /\ UNCHANGED <<listVars, fmtVars, mainVars>>
    /\ UNCHANGED statsVars

\* lines 143-145 and 195-206: stats, up to the first test of the while loop
CmdStats ==
    /\ pc = "prompt"
    /\ last' = "CmdStats"
    /\ UNCHANGED returned
    /\ \E c \in Commands :
          /\ ~IsExit(c)
          /\ IsStats(c)
          /\ cmd' = c
    /\ stats' = EmptyStats
    /\ folders_to_process' = <<current_path>>
    /\ processed_count' = 0
    /\ screen' = Append(screen, Line("analyzing", <<>>, 0))
    /\ pc' = "stats_while"
    /\ UNCHANGED <<current_path, quick, folders, files, iter_path>>
    /\ UNCHANGED <<entries, next_entry, fetched, refetched, reenqueued,
                   seen_sizes, last_failed>>
    /\ UNCHANGED remoteVars
    /\ UNCHANGED <<listVars, fmtVars, mainVars>>

\* lines 161-168: cd ..
CmdCdUp ==
    /\ pc = "prompt"
    /\ last' = "CmdCdUp"
    /\ UNCHANGED returned
    /\ \E c \in Commands :
              /\ ~IsExit(c) /\ ~IsStats(c) /\ IsCd(c)
              /\ Target(c) = DotDot
              /\ cmd' = c
    /\ current_path' = CdUp(current_path)
    /\ pc' = "top"
    /\ UNCHANGED <<quick, folders, files, iter_path, screen>>
    /\ UNCHANGED remoteVars
    /\ UNCHANGED <<listVars, fmtVars, mainVars>>
    /\ UNCHANGED statsVars

\* lines 170-177: cd <number>
CmdCdNumber ==
    /\ pc = "prompt"
    /\ last' = "CmdCdNumber"
    /\ UNCHANGED returned
    /\ \E c \in Commands :
          LET index == IntValue(Target(c)) - 1
          IN  /\ ~IsExit(c) /\ ~IsStats(c) /\ IsCd(c)
              /\ Target(c) # DotDot
              /\ IsIntLiteral(Target(c))
              /\ cmd' = c
              /\ IF ValidIndex(folders, index)
                 THEN /\ current_path' = folders[index + 1].path_lower
                      /\ pc' = "top"
                      /\ UNCHANGED screen
                 ELSE /\ screen' = Append(screen, Line("invalid_number", <<>>, 0))
                      /\ pc' = "ack"
                      /\ UNCHANGED current_path
    /\ UNCHANGED <<quick, folders, files, iter_path>>
    /\ UNCHANGED remoteVars
    /\ UNCHANGED <<listVars, fmtVars, mainVars>>
    /\ UNCHANGED statsVars

\* lines 178-189: cd <name>
CmdCdName ==
    /\ pc = "prompt"
    /\ last' = "CmdCdName"
    /\ UNCHANGED returned
    /\ \E c \in Commands :
              /\ ~IsExit(c) /\ ~IsStats(c) /\ IsCd(c)
              /\ Target(c) # DotDot
              /\ ~IsIntLiteral(Target(c))
              /\ cmd' = c
              /\ current_path' = PathByName(folders, Target(c), current_path)
              /\ IF NameMatches(folders, Target(c)) # {}
                 THEN /\ pc' = "top"
                      /\ UNCHANGED screen
                 ELSE /\ screen' = Append(screen, Line("not_found", Target(c), 0))
                      /\ pc' = "ack"
    /\ UNCHANGED <<quick, folders, files, iter_path>>
    /\ UNCHANGED remoteVars
    /\ UNCHANGED <<listVars, fmtVars, mainVars>>
    /\ UNCHANGED statsVars

\* any other line: no branch is taken and the loop iterates
CmdOther ==
    /\ pc = "prompt"
    /\ last' = "CmdOther"
    /\ UNCHANGED returned
    /\ \E c \in Commands :
              /\ ~IsExit(c) /\ ~IsStats(c) /\ ~IsCd(c)
              /\ cmd' = c
    /\ pc' = "top"
    /\ UNCHANGED <<current_path, quick, folders, files, iter_path, screen>>
    /\ UNCHANGED remoteVars
    /\ UNCHANGED <<listVars, fmtVars, mainVars>>
    /\ UNCHANGED statsVars

\* lines 159, 177 and 189: input("Press Enter to continue...") returns
Acknowledge ==
    /\ pc = "ack"
    /\ last' = "Acknowledge"
    /\ UNCHANGED returned
    /\ pc' = "top"
    /\ UNCHANGED navVars
    /\ UNCHANGED screen
    /\ UNCHANGED remoteVars
    /\ UNCHANGED <<listVars, fmtVars, mainVars>>
    /\ UNCHANGED statsVars

----------------------------------------------------------------------------
(* get_detailed_stats: one action per step *)

\* lines 208-213 and 243-244: the loop goes on, a folder is dequeued and fetched
StatsFetch ==
    /\ pc = "stats_while"
    /\ last' = "StatsFetch"
    /\ LoopGoesOn(folders_to_process, processed_count)
    /\ Head(folders_to_process) \notin broken
    /\ LET current_folder == Head(folders_to_process)
           r == files_list_folder(current_folder)
       IN  /\ folders_to_process' = IF r.ok THEN Tail(folders_to_process)
                                  ELSE AfterFetchError(Tail(folders_to_process))
           /\ processed_count' = processed_count + 1
           /\ fetched' = fetched \cup {PathId(current_folder)}
           /\ refetched' = IF PathId(current_folder) \in fetched
                           THEN refetched + 1 ELSE refetched
           /\ last_failed' = ~r.ok
           /\ returned' = returned \cup FolderPaths(r.entries)
           /\ IF r.ok
              THEN /\ entries' = r.entries
                   /\ next_entry' = 1
                   /\ pc' = IF r.entries = <<>> THEN "stats_while" ELSE "stats_for"
                   /\ UNCHANGED screen
              ELSE /\ screen' = Append(screen,
                                       Line("error_accessing", current_folder, 0))
                   /\ entries' = <<>>
                   /\ next_entry' = 1
                   /\ pc' = "stats_while"
    /\ UNCHANGED <<stats, reenqueued, seen_sizes>>
    /\ UNCHANGED navVars
    /\ UNCHANGED remoteVars
    /\ UNCHANGED <<listVars, fmtVars, mainVars>>

\* lines 215-241: the for loop takes one entry
StatsEntry ==
    /\ pc = "stats_for"
    /\ last' = "StatsEntry"
    /\ UNCHANGED returned
    /\ LET entry == entries[next_entry]
       IN  /\ stats' = CountEntry(stats, entry)
           /\ folders_to_process' = Enqueue(folders_to_process, entry)
           /\ reenqueued' = reenqueued + Cardinality(
                 {i \in (Len(folders_to_process) + 1)
                           ..Len(Enqueue(folders_to_process, entry)) :
                     LET queue == Enqueue(folders_to_process, entry)
                     IN  \/ PathId(queue[i]) \in fetched
                         \/ \E j \in 1..(i - 1) : queue[j] = queue[i]})
           /\ seen_sizes' = IF IsFile(entry)
                            THEN Increment(seen_sizes, entry.size)
                            ELSE seen_sizes
    /\ next_entry' = next_entry + 1
    /\ pc' = IF next_entry = Len(entries) THEN "stats_while" ELSE "stats_for"
    /\ UNCHANGED <<processed_count, entries, fetched, refetched, last_failed>>
    /\ UNCHANGED screen
    /\ UNCHANGED navVars
    /\ UNCHANGED remoteVars
    /\ UNCHANGED <<listVars, fmtVars, mainVars>>

\* lines 208 and 246-252: the loop ends, the note is printed, stats is returned
StatsReturn ==
    /\ pc = "stats_while"
    /\ last' = "StatsReturn"
    /\ UNCHANGED returned
    /\ ~LoopGoesOn(folders_to_process, processed_count)
    /\ screen' = IF NoteDue(processed_count)
                 THEN Append(screen, Line("note_limited", <<>>, 0))
                 ELSE screen
    /\ pc' = "stats_done"
    /\ UNCHANGED statsVars
    /\ UNCHANGED navVars
    /\ UNCHANGED remoteVars
    /\ UNCHANGED <<listVars, fmtVars, mainVars>>

\* lines 146-159: the statistics are shown; the traversal's locals are gone
StatsRender ==
    /\ pc = "stats_done"
    /\ last' = "StatsRender"
    /\ UNCHANGED returned
    /\ screen' = Append(screen, Line("detailed", <<>>, stats.total_folders))
    /\ pc' = "ack"
    /\ folders_to_process' = <<>>
    /\ processed_count' = 0
    /\ stats' = EmptyStats
    /\ entries' = <<>>
    /\ next_entry' = 0
    /\ fetched' = {}
    /\ refetched' = 0
    /\ reenqueued' = 0
    /\ seen_sizes' = <<>>
    /\ last_failed' = FALSE
    /\ UNCHANGED navVars
    /\ UNCHANGED remoteVars
    /\ UNCHANGED <<listVars, fmtVars, mainVars>>

----------------------------------------------------------------------------
(* Specifications *)

\* interactive_explorer(dbx): the loop starts at the root of a small remote tree
Init ==
    /\ layout \in Layouts
    /\ nfolders \in 1..MaxFolders
    /\ failing \in FailChoices
    /\ pc = "top"
    /\ current_path = <<>>
    /\ quick = NoStats
    /\ folders = <<>>
    /\ files = <<>>
    /\ cmd = <<>>
    /\ iter_path = <<>>
    /\ screen = <<>>
    /\ last = "Init"
    /\ returned = {}
    /\ StatsIdle
    /\ ListIdle
    /\ FormatIdle
    /\ MainIdle

Next ==
    \/ Iterate
    \/ CmdExit
    \/ CmdStats
    \/ CmdCdUp
    \/ CmdCdNumber
    \/ CmdCdName
    \/ CmdOther
    \/ Acknowledge
    \/ StatsFetch
    \/ StatsEntry
    \/ StatsReturn
    \/ StatsRender

Spec == Init /\ [][Next]_vars

----------------------------------------------------------------------------
(* get_detailed_stats on remote trees that reach the cap *)

\* every folder holds four files, and two sub-folders as far as the tree goes
WideLayout == <<File(<<"x", ".", "T">>, 1), Folder(<<"B">>), File(<<"R">>, 2),
                File(<<"S">>, 2), File(<<"q">>, 2), Folder(<<"a">>)>>

\* every folder holds two files, and one sub-folder as far as the tree goes
ChainLayout == <<File(<<"R">>, 2), Folder(<<"a">>), File(<<"x", ".", "T">>, 1)>>

\* every folder holds two sub-folders as far as the tree goes, and no file
DeepLayout == <<Folder(<<"B">>), Folder(<<"a">>)>>

\* the sizes of the deep trees: one folder less than the cap, as many as the
\* cap, and one more
DeepSizes == {FolderCap - 1, FolderCap, FolderCap + 1}

\* the state in which get_detailed_stats(dbx, "") tests its loop for the
\* first time: the `stats` command typed at the root's first prompt
InitStats ==
    /\ \/ layout \in {WideLayout, ChainLayout} /\ nfolders \in 1..MaxFolders
       \/ layout = DeepLayout /\ nfolders \in DeepSizes
    /\ failing \in FailChoices
    /\ pc = "stats_while"
    /\ current_path = <<>>
    /\ quick = get_folder_stats(<<>>).stats
    /\ folders = list_folder_contents(<<>>, MaxItems).folders
    /\ files = list_folder_contents(<<>>, MaxItems).files
    /\ cmd = Stats
    /\ iter_path = <<>>
    /\ screen = <<Line("current_path", <<"/">>, 0)>>
                \o get_folder_stats(<<>>).printed
                \o <<Line("contents", <<>>, get_folder_stats(<<>>).stats.folders)>>
                \o list_folder_contents(<<>>, MaxItems).printed
                \o <<Line("analyzing", <<>>, 0)>>
    /\ last = "CmdStats"
    /\ returned = FolderPaths(files_list_folder(<<>>).entries)
    /\ folders_to_process = << <<>> >>
    /\ processed_count = 0
    /\ stats = EmptyStats
    /\ entries = <<>>
    /\ next_entry = 0
    /\ fetched = {}
    /\ refetched = 0
    /\ reenqueued = 0
    /\ seen_sizes = <<>>
    /\ last_failed = FALSE
    /\ ListIdle
    /\ FormatIdle
    /\ MainIdle

NextStats ==
    \/ StatsFetch
    \/ StatsEntry
    \/ StatsReturn

SpecStats == InitStats /\ [][NextStats]_vars

----------------------------------------------------------------------------
(* format_file_size on the byte counts of SizeArgs *)

\* lines 16-18: the magnitude is below 1024 and the string is returned
FormatReturn ==
    /\ pc = "fmt_for"
    /\ unit <= Len(Units)
    /\ BelowKilo(size_bytes)
    /\ formatted' = Formatted(size_bytes, Units[unit])
    /\ pc' = "fmt_done"
    /\ last' = "FormatReturn"
    /\ UNCHANGED <<size_arg, size_bytes, unit>>
    /\ UNCHANGED <<screen, returned>>
    /\ UNCHANGED <<remoteVars, navVars, statsVars, listVars, mainVars>>

\* lines 16, 17 and 19: the magnitude is divided and the next unit is tried
FormatDivide ==
    /\ pc = "fmt_for"
    /\ unit <= Len(Units)
    /\ ~BelowKilo(size_bytes)
    /\ size_bytes' = DivideByKilo(size_bytes)
    /\ unit' = unit + 1
    /\ pc' = "fmt_for"
    /\ last' = "FormatDivide"
    /\ UNCHANGED <<size_arg, formatted>>
    /\ UNCHANGED <<screen, returned>>
    /\ UNCHANGED <<remoteVars, navVars, statsVars, listVars, mainVars>>

\* line 20: the units are exhausted
FormatFallThrough ==
    /\ pc = "fmt_for"
    /\ unit > Len(Units)
    /\ formatted' = Formatted(size_bytes, "PB")
    /\ pc' = "fmt_done"
    /\ last' = "FormatFallThrough"
    /\ UNCHANGED <<size_arg, size_bytes, unit>>
    /\ UNCHANGED <<screen, returned>>
    /\ UNCHANGED <<remoteVars, navVars, statsVars, listVars, mainVars>>

\* format_file_size(size_bytes) is called
InitFormat ==
    /\ size_arg \in SizeArgs
    /\ size_bytes = [int |-> size_arg, frac |-> <<>>]
    /\ unit = 1
    /\ formatted = NoText
    /\ pc = "fmt_for"
    /\ last = "Init"
    /\ layout = <<>>
    /\ nfolders = 1
    /\ failing = {}
    /\ current_path = <<>>
    /\ quick = NoStats
    /\ folders = <<>>
    /\ files = <<>>
    /\ cmd = <<>>
    /\ iter_path = <<>>
    /\ screen = <<>>
    /\ returned = {}
    /\ StatsIdle
    /\ ListIdle
    /\ MainIdle

NextFormat ==
    \/ FormatReturn
    \/ FormatDivide
    \/ FormatFallThrough

SpecFormat == InitFormat /\ [][NextFormat]_vars

----------------------------------------------------------------------------
(* list_folder_contents on the listings of ListLayouts *)

ListFileNames == {<<"b", ".", "t">>, <<"A", ".", "t">>, <<"Z">>, <<"a", "_">>}

ListTemplates == {Folder(<<"a">>), Folder(<<"B">>)}
                 \cup {File(n, 1) : n \in ListFileNames}

\* the listings of the root: up to MaxListed entries, in any order
ListLayouts == {s \in UNION {[1..n -> ListTemplates] : n \in 0..MaxListed} :
                    DistinctNames(s)}

\* lines 22-51: list_folder_contents(dbx, path, max_items)
ListFolder ==
    /\ pc = "list_call"
    /\ LET l == list_folder_contents(current_path, list_max)
       IN  /\ folders' = l.folders
           /\ files' = l.files
           /\ screen' = l.printed
    /\ returned' = returned \cup FolderPaths(files_list_folder(current_path).entries)
    /\ pc' = "list_return"
    /\ last' = "ListFolder"
    /\ UNCHANGED <<current_path, quick, cmd, iter_path>>
    /\ UNCHANGED <<remoteVars, statsVars, listVars, fmtVars, mainVars>>

\* list_folder_contents(dbx, "", max_items) is called
InitListing ==
    /\ layout \in ListLayouts
    /\ nfolders = 1 + Len(layout)
    /\ failing \in {{}, {<<>>}}
    /\ list_max \in 0..MaxShown
    /\ pc = "list_call"
    /\ last = "Init"
    /\ current_path = <<>>
    /\ quick = NoStats
    /\ folders = <<>>
    /\ files = <<>>
    /\ cmd = <<>>
    /\ iter_path = <<>>
    /\ screen = <<>>
    /\ returned = {}
    /\ StatsIdle
    /\ FormatIdle
    /\ MainIdle

NextListing == ListFolder

SpecListing == InitListing /\ [][NextListing]_vars

----------------------------------------------------------------------------
(* The navigation loop's claims, under Spec *)

CommandSteps == {"CmdExit", "CmdStats", "CmdCdUp", "CmdCdNumber", "CmdCdName",
                 "CmdOther"}

LastLine == screen[Len(screen)]

\* "/name": one level below the root
OneLevelDeep(p) ==
    Len(p) >= 2 /\ p[1] = "/" /\ \A i \in 2..Len(p) : p[i] # "/"

\* the folders are in ascending order of their lower-cased names
SortedFolders ==
    \A i, j \in 1..Len(folders) :
        i < j => ~StrLess(Lower(folders[j].name), Lower(folders[i].name))

\* C1: `cd ..` typed at a one-level-deep path "/name" sets current_path to
\* the root "", and `cd ..` typed at the root leaves current_path "".
C1_CdUpReturnsToRoot ==
    (last = "CmdCdUp" /\ (OneLevelDeep(iter_path) \/ iter_path = <<>>))
        => current_path = <<>>

\* C2: current_path is always the root "" or the path of a folder entry
\* that an earlier listing call returned.
C2_PathWasListed ==
    \/ current_path = <<>>
    \/ IsFolderPath(current_path) /\ FolderIndex(current_path) \in returned

\* C3: after `cd <N>` with N an integer, current_path is the path of the
\* N-th folder of the iteration's sorted folder list when 1 <= N <= the
\* number of folders; for every other N current_path is unchanged,
\* "invalid" is the last line shown and the loop waits for acknowledgment.
C3_CdNumber ==
    last = "CmdCdNumber" =>
        LET N == IntValue(Target(cmd))
        IN  /\ SortedFolders
            /\ IF 1 <= N /\ N <= Len(folders)
               THEN current_path = folders[N].path_lower /\ pc = "top"
               ELSE /\ current_path = iter_path
                    /\ pc = "ack"
                    /\ LastLine = Line("invalid_number", <<>>, 0)

\* `cd 2` has just opened the second of the listed folders
C3_Witness ==
    /\ last = "CmdCdNumber"
    /\ IntValue(Target(cmd)) = 2
    /\ Len(folders) = 2
    /\ current_path = folders[2].path_lower
    /\ current_path # iter_path

\* C4: after `cd <name>` with name no integer, current_path is the path of
\* the first folder of the sorted list whose name equals <name> ignoring
\* case; when no folder matches, current_path is unchanged, "not found" is
\* the last line shown and the loop waits for acknowledgment.
C4_CdName ==
    last = "CmdCdName" =>
        LET t == Target(cmd)
            m == {i \in 1..Len(folders) : Lower(folders[i].name) = Lower(t)}
        IN  IF m # {}
            THEN /\ pc = "top"
                 /\ current_path =
                       folders[CHOOSE i \in m : \A j \in m : i <= j].path_lower
            ELSE /\ current_path = iter_path
                 /\ pc = "ack"
                 /\ LastLine = Line("not_found", t, 0)

\* `cd <name>` has just opened a folder whose name is written in another case
C4_Witness ==
    /\ last = "CmdCdName"
    /\ pc = "top"
    /\ \E i \in 1..Len(folders) :
          /\ folders[i].name # Target(cmd)
          /\ Lower(folders[i].name) = Lower(Target(cmd))
          /\ current_path = folders[i].path_lower
          /\ current_path # iter_path

\* what `cd <target>` does to current_path, by lines 165-185
CdEffect(target) ==
    IF target = DotDot THEN CdUp(iter_path)
    ELSE IF IsIntLiteral(target)
    THEN (IF 1 <= IntValue(target) /\ IntValue(target) <= Len(folders)
          THEN folders[IntValue(target)].path_lower ELSE iter_path)
    ELSE LET m == {i \in 1..Len(folders) :
                      Lower(folders[i].name) = Lower(target)}
         IN  IF m # {}
             THEN folders[CHOOSE i \in m : \A j \in m : i <= j].path_lower
             ELSE iter_path

\* C5: in every letter case of the keyword, `exit` ends the loop, `stats`
\* starts the deep statistics and `cd <target>` changes current_path as the
\* lower-case command does.
C5_KeywordsAnyCase ==
    last \in CommandSteps =>
        /\ Lower(cmd) = Exit => pc = "exited"
        /\ Lower(cmd) = Stats => pc = "stats_while"
        /\ (Len(cmd) > 3 /\ Lower(SubSeq(cmd, 1, 3)) = CdPrefix)
              => current_path = CdEffect(Target(CdPrefix \o DropFirst(cmd, 3)))

CdSteps == {"CmdCdUp", "CmdCdNumber", "CmdCdName"}

\* C14: current_path is "" when the loop starts; a step changes it only when
\* it is a cd command that succeeds (no error shown, the loop iterates), and
\* from the listing of an iteration until a successful cd (through `stats`,
\* unrecognized input, failed listings and failed statistics) current_path
\* is what it was when the iteration started.
C14_OnlyCdMoves ==
    /\ current_path = <<>>
    /\ [](pc # "top" => current_path = iter_path)
    /\ [][current_path' # current_path =>
             /\ last' \in CdSteps
             /\ pc' = "top"
             /\ screen' = screen]_vars

\* the deep statistics of a folder below the root, whose fetch failed, have
\* been shown and current_path is still that folder
C14_Witness ==
    /\ last = "StatsRender"
    /\ pc = "ack"
    /\ current_path # <<>>
    /\ current_path \in failing
    /\ current_path = iter_path
    /\ HasLine(screen, "error_accessing")

----------------------------------------------------------------------------
(* get_detailed_stats's claims, under SpecStats *)

\* the folders the traversal knows of: the start path and every folder entry
\* that a fetch returned
Discovered == stats.total_folders + 1

\* C6 as stated: at most 1000 folders are fetched; a tree of more than 1000
\* folders has exactly 1000 fetched and the queue non-empty at the return,
\* and a tree of at most 1000 folders has the queue empty at the return.
C6_Original ==
    /\ processed_count <= FolderCap
    /\ pc = "stats_done" =>
          IF nfolders > FolderCap
          THEN processed_count = FolderCap /\ folders_to_process # <<>>
          ELSE folders_to_process = <<>>

\* a bound on the steps get_detailed_stats has yet to take: every fetch
\* is followed by at most as many entries as a folder holds
StepsLeft ==
    IF pc = "stats_done" THEN 0
    ELSE 1 + (FolderCap - processed_count) * (Len(layout) + 1)
           + (IF pc = "stats_for" THEN Len(entries) - next_entry + 1 ELSE 0)

C6_AtReturn ==
    /\ processed_count <= FolderCap
    /\ pc = "stats_for" => next_entry \in 1..Len(entries)
    /\ pc = "stats_done" =>
          IF Discovered > FolderCap
          THEN processed_count = FolderCap /\ folders_to_process # <<>>
          ELSE processed_count = Discovered /\ folders_to_process = <<>>

\* C6, amended: get_detailed_stats terminates (the for loop always has its
\* entry to take, the while loop tests a condition, and every step lowers
\* StepsLeft, which is never negative) and fetches at most 1000
\* folders; when it discovers more than 1000 folders (the start path and the
\* folder entries of the fetches that succeed) it returns with exactly 1000
\* fetched and the queue non-empty, and when it discovers at most 1000 it
\* returns with all of them fetched and the queue empty.
C6_CapAndTermination ==
    /\ []C6_AtReturn
    /\ [][StepsLeft' < StepsLeft /\ StepsLeft' >= 0]_vars

\* the traversal of a tree of more than 1000 folders has returned at the cap
C6_Witness ==
    /\ pc = "stats_done"
    /\ nfolders > FolderCap
    /\ processed_count = FolderCap
    /\ folders_to_process # <<>>

\* C7: no folder path is enqueued twice, and none is dequeued and fetched
\* more than once.
C7_NoRevisit ==
    /\ reenqueued = 0
    /\ refetched = 0
    /\ Cardinality(fetched) = processed_count

\* a tree of 999 folders has been traversed to its end
C7_Witness ==
    /\ pc = "stats_done"
    /\ nfolders = FolderCap - 1
    /\ processed_count = nfolders
    /\ Cardinality(fetched) = nfolders

SeenCount(s) == IF s \in DOMAIN seen_sizes THEN seen_sizes[s] ELSE 0

RECURSIVE SeenIn(_)
SeenIn(S) ==
    IF S = {} THEN 0
    ELSE LET s == CHOOSE x \in S : TRUE IN seen_sizes[s] + SeenIn(S \ {s})

\* how many files larger than s were processed
SeenLarger(s) == SeenIn({t \in DOMAIN seen_sizes : t > s})

KeptCount(s) ==
    Cardinality({i \in 1..Len(stats.largest_files) :
                    stats.largest_files[i].size = s})

\* how many files of size s the ten largest of the processed files hold
TopCount(s) ==
    LET room == IF SeenLarger(s) >= TopK THEN 0 ELSE TopK - SeenLarger(s)
    IN  IF SeenCount(s) < room THEN SeenCount(s) ELSE room

C8_TopTen ==
    LET lf == stats.largest_files
    IN  /\ Len(lf) <= TopK
        /\ \A i \in 1..(Len(lf) - 1) : lf[i].size >= lf[i + 1].size
        /\ \A i \in 1..Len(lf) : lf[i].size \in DOMAIN seen_sizes
        /\ \A s \in DOMAIN seen_sizes : KeptCount(s) = TopCount(s)

C8_Evicts ==
    LET lf == stats.largest_files
        e == entries[next_entry]
        file_info == [name |-> e.name, path |-> e.path_lower, size |-> e.size]
    IN  (/\ pc = "stats_for"
         /\ IsFile(e)
         /\ Len(lf) = TopK
         /\ e.size > lf[TopK].size)
        => \E k \in 1..TopK :
              /\ stats'.largest_files[k] = file_info
              /\ Len(stats'.largest_files) = TopK
              /\ SubSeq(stats'.largest_files, 1, k - 1) = SubSeq(lf, 1, k - 1)
              /\ SubSeq(stats'.largest_files, k + 1, TopK) = SubSeq(lf, k, TopK - 1)

\* C8: largest_files never has more than 10 entries, is in non-increasing
\* order of size and holds the sizes of the (up to) 10 largest files
\* processed so far; a file larger than the last entry of a full list takes
\* its place in the order and that last entry is dropped.
C8_LargestFiles == []C8_TopTen /\ [][C8_Evicts]_vars

\* more than ten files were processed and every file of size 1 is evicted
C8_Witness ==
    /\ Len(stats.largest_files) = TopK
    /\ stats.total_files > TopK
    /\ SeenCount(1) > 0
    /\ stats.largest_files[TopK].size > 1

\* C9: when the fetch of the dequeued folder raises ApiError, the error is
\* printed, the statistics are as they were, the folder counts as processed
\* and the loop goes on with the folders still queued.
C9_FetchErrorContinues ==
    [][(/\ pc = "stats_while"
        /\ folders_to_process # <<>>
        /\ processed_count < FolderCap
        /\ ~files_list_folder(Head(folders_to_process)).ok)
       => /\ stats' = stats
          /\ processed_count' = processed_count + 1
          /\ folders_to_process' = Tail(folders_to_process)
          /\ pc' = "stats_while"
          /\ screen' = Append(screen,
                 Line("error_accessing", Head(folders_to_process), 0))]_vars

\* a fetch failed, and the traversal went on to count files in other folders
C9_Witness ==
    /\ pc = "stats_done"
    /\ \E p \in failing : IsFolderPath(p) /\ FolderIndex(p) \in fetched
    /\ HasLine(screen, "error_accessing")
    /\ processed_count > 3
    /\ stats.total_files > 2

\* C18 as stated: the note is printed exactly when the traversal stopped at
\* the cap with a folder still queued.
C18_NoteIffPartial ==
    pc = "stats_done" =>
        (HasLine(screen, "note_limited")
            <=> (processed_count = FolderCap /\ folders_to_process # <<>>))

\* C19: at the top of every iteration of the while loop and at the return,
\* processed_count + len(folders_to_process) = total_folders + 1.
C19_QueueBalance ==
    pc \in {"stats_while", "stats_done"} =>
        processed_count + Len(folders_to_process) = stats.total_folders + 1

\* the cap has stopped a traversal: total_folders counts folders that were
\* never fetched
C19_Witness ==
    /\ pc = "stats_done"
    /\ processed_count = FolderCap
    /\ folders_to_process # <<>>
    /\ stats.total_folders >= processed_count
    /\ processed_count + Len(folders_to_process) = stats.total_folders + 1

----------------------------------------------------------------------------
(* main and select_team_member.  The environment either has credentials    *)
(* that make a client or has none; the token is a team's, whose members    *)
(* team_members_list returns unless the call fails, or one account's, for  *)
(* which team_members_list always raises.  users_get_current_account       *)
(* answers or raises.  The listing of a path in `broken` raises an         *)
(* exception that is no ApiError (AuthError, HttpError, a connection       *)
(* error), for every handle.  The interpreter's recursion limit, which a   *)
(* long run of invalid choices would reach, is left out.                   *)

TeamLists == UNION {[1..n -> {"m1", "m2", "m3"}] : n \in 0..MaxMembers}

BrokenChoices == SUBSET {<<>>, <<"/", "a">>}

\* the lines the user may type at the selection prompt
ChoiceInputs == {<<"0">>, <<"1">>, <<"2">>, <<"3">>, <<"-", "1">>,
                 <<" ", "1">>, <<"x">>, <<>>}

\* line 100: 1 <= choice <= len(members)
ValidChoice(ms, choice) == 1 <= choice /\ choice <= Len(ms)

\* lines 79-82: the lines list_team_members prints
MemberLines(ms) == <<Line("team_members", <<>>, 0)>>
                   \o [i \in 1..Len(ms) |-> Line("member", <<ms[i]>>, i)]

\* interactive_explorer(handle) is entered: its locals are new
ExplorerStarts ==
    /\ pc' = "top"
    /\ current_path' = <<>>
    /\ quick' = NoStats
    /\ folders' = <<>>
    /\ files' = <<>>
    /\ iter_path' = <<>>

\* lines 255-263: the team client is made, or the constructor raises
TeamClient ==
    /\ pc = "main"
    /\ screen' = Append(screen, Line("connecting", <<>>, 0))
    /\ pc' = IF creds_ok THEN "select_list" ELSE "fallback"
    /\ last' = "TeamClient"
    /\ UNCHANGED <<navVars, returned>>
    /\ UNCHANGED <<remoteVars, statsVars, listVars, fmtVars, mainVars>>

\* lines 75-94: select_team_member lists the members; with none, or when
\* the call raises, it returns None
ListMembers ==
    /\ pc = "select_list"
    /\ \E ok \in {TRUE, FALSE} :
          /\ ok => team_kind = "team"
          /\ members' = IF ok THEN team_members ELSE <<>>
          /\ screen' = screen
                \o (IF ok THEN MemberLines(team_members)
                    ELSE <<Line("error_listing_members", <<>>, 0)>>)
                \o (IF ok /\ team_members # <<>> THEN <<>>
                    ELSE <<Line("no_members", <<>>, 0)>>)
          /\ pc' = IF ok /\ team_members # <<>> THEN "select_prompt"
                   ELSE "select_none"
    /\ last' = "ListMembers"
    /\ UNCHANGED <<navVars, returned>>
    /\ UNCHANGED <<creds_ok, team_kind, team_members, broken, client, outcome>>
    /\ UNCHANGED <<remoteVars, statsVars, listVars, fmtVars>>

\* how many times the selection prompt was reached
Prompts == Len(SelectSeq(screen, LAMBDA l : l.kind = "team_members"))

\* lines 96-110: the choice is read; the model follows the selection up to
\* MaxPrompts prompts
Choose ==
    /\ pc = "select_prompt"
    /\ Prompts <= MaxPrompts
    /\ \E line \in ChoiceInputs :
          /\ cmd' = line
          /\ IF IsIntLiteral(Strip(line))
             THEN LET choice == IntValue(Strip(line))
                  IN  IF choice = 0
                      THEN /\ pc' = "select_none"
                           /\ UNCHANGED <<client, screen>>
                      ELSE IF ValidChoice(members, choice)
                      THEN /\ client' = members[choice]
                           /\ screen' = Append(screen,
                                  Line("selected", <<members[choice]>>, choice))
                           /\ pc' = "team_account"
                      ELSE /\ screen' = Append(screen,
                                  Line("invalid_selection", <<>>, 0))
                           /\ pc' = "select_list"
                           /\ UNCHANGED client
             ELSE /\ screen' = Append(screen, Line("enter_valid_number", <<>>, 0))
                  /\ pc' = "select_list"
                  /\ UNCHANGED client
    /\ last' = "Choose"
    /\ UNCHANGED <<current_path, quick, folders, files, iter_path, returned>>
    /\ UNCHANGED <<creds_ok, team_kind, team_members, broken, members, outcome>>
    /\ UNCHANGED <<remoteVars, statsVars, listVars, fmtVars>>

\* lines 266-269: select_team_member returned None
NoUserSelected ==
    /\ pc = "select_none"
    /\ screen' = Append(screen, Line("no_user_selected", <<>>, 0))
    /\ pc' = "ended"
    /\ outcome' = "no_user"
    /\ last' = "NoUserSelected"
    /\ UNCHANGED <<navVars, returned>>
    /\ UNCHANGED <<creds_ok, team_kind, team_members, broken, members, client>>
    /\ UNCHANGED <<remoteVars, statsVars, listVars, fmtVars>>

\* lines 272-276: the member's account answers and the explorer starts, or
\* the call raises
TeamAccount ==
    /\ pc = "team_account"
    /\ \/ /\ screen' = Append(screen, Line("connected", <<client>>, 0))
          /\ ExplorerStarts
       \/ /\ pc' = "fallback"
          /\ UNCHANGED <<current_path, quick, folders, files, iter_path, screen>>
    /\ last' = "TeamAccount"
    /\ UNCHANGED <<cmd, returned>>
    /\ UNCHANGED <<remoteVars, statsVars, listVars, fmtVars, mainVars>>

\* lines 278-290: the individual client is made, its account answers and
\* the explorer starts on it
FallbackStarts ==
    /\ pc = "fallback"
    /\ creds_ok
    /\ client' = "individual"
    /\ screen' = screen \o <<Line("team_failed", <<>>, 0),
                              Line("connected", <<"individual">>, 0)>>
    /\ ExplorerStarts
    /\ last' = "FallbackStarts"
    /\ UNCHANGED <<cmd, returned>>
    /\ UNCHANGED <<creds_ok, team_kind, team_members, broken, members, outcome>>
    /\ UNCHANGED <<remoteVars, statsVars, listVars, fmtVars>>

\* lines 278-286 and 292-295: the constructor or the account call raises
\* in the handler
FallbackFails ==
    /\ pc = "fallback"
    /\ screen' = screen \o <<Line("team_failed", <<>>, 0),
                              Line("error", <<>>, 0)>>
    /\ pc' = "ended"
    /\ outcome' = "error"
    /\ last' = "FallbackFails"
    /\ UNCHANGED <<navVars, returned>>
    /\ UNCHANGED <<creds_ok, team_kind, team_members, broken, members, client>>
    /\ UNCHANGED <<remoteVars, statsVars, listVars, fmtVars>>

\* where an exception that leaves interactive_explorer is handled: line 278
\* for the explorer of line 276, lines 292-295 for the explorer of line 290
Handler == IF client = "individual" THEN "ended" ELSE "fallback"

\* lines 116-122: the listing of get_folder_stats raises an exception that
\* is no ApiError; it leaves get_folder_stats and interactive_explorer
IterateRaises ==
    /\ pc = "top"
    /\ current_path \in broken
    /\ screen' = <<Line("current_path",
                        IF current_path # <<>> THEN current_path ELSE <<"/">>, 0)>>
                  \o (IF Handler = "ended" THEN <<Line("error", <<>>, 0)>> ELSE <<>>)
    /\ pc' = Handler
    /\ outcome' = IF Handler = "ended" THEN "error" ELSE outcome
    /\ last' = "IterateRaises"
    /\ UNCHANGED <<navVars, returned>>
    /\ UNCHANGED <<creds_ok, team_kind, team_members, broken, members, client>>
    /\ UNCHANGED <<remoteVars, statsVars, listVars, fmtVars>>

\* lines 208-213: the fetch raises an exception that is no ApiError; it
\* leaves get_detailed_stats and interactive_explorer
StatsRaises ==
    /\ pc = "stats_while"
    /\ LoopGoesOn(folders_to_process, processed_count)
    /\ Head(folders_to_process) \in broken
    /\ screen' = IF Handler = "ended" THEN Append(screen, Line("error", <<>>, 0))
                 ELSE screen
    /\ pc' = Handler
    /\ outcome' = IF Handler = "ended" THEN "error" ELSE outcome
    /\ last' = "StatsRaises"
    /\ folders_to_process' = <<>>
    /\ processed_count' = 0
    /\ stats' = EmptyStats
    /\ entries' = <<>>
    /\ next_entry' = 0
    /\ fetched' = {}
    /\ refetched' = 0
    /\ reenqueued' = 0
    /\ seen_sizes' = <<>>
    /\ last_failed' = FALSE
    /\ UNCHANGED <<navVars, returned>>
    /\ UNCHANGED <<creds_ok, team_kind, team_members, broken, members, client>>
    /\ UNCHANGED <<remoteVars, listVars, fmtVars>>

\* lines 141 and 276 or 290: the loop is left by `exit` and main returns
MainReturn ==
    /\ pc = "exited"
    /\ pc' = "ended"
    /\ outcome' = "exit"
    /\ last' = "MainReturn"
    /\ UNCHANGED <<navVars, screen, returned>>
    /\ UNCHANGED <<creds_ok, team_kind, team_members, broken, members, client>>
    /\ UNCHANGED <<remoteVars, statsVars, listVars, fmtVars>>

\* main() is called
InitMain ==
    /\ creds_ok \in BOOLEAN
    /\ team_kind \in {"team", "individual"}
    /\ team_members \in (IF team_kind = "team" THEN TeamLists ELSE {<<>>})
    /\ broken \in BrokenChoices
    /\ members = <<>>
    /\ client = "none"
    /\ outcome = "running"
    /\ layout = <<Folder(<<"a">>), File(<<"x", ".", "T">>, 1)>>
    /\ nfolders = 2
    /\ failing \in SUBSET {<<"/", "a">>}
    /\ pc = "main"
    /\ current_path = <<>>
    /\ quick = NoStats
    /\ folders = <<>>
    /\ files = <<>>
    /\ cmd = <<>>
    /\ iter_path = <<>>
    /\ screen = <<>>
    /\ last = "Init"
    /\ returned = {}
    /\ StatsIdle
    /\ ListIdle
    /\ FormatIdle

NextMain ==
    \/ TeamClient
    \/ ListMembers
    \/ Choose
    \/ NoUserSelected
    \/ TeamAccount
    \/ FallbackStarts
    \/ FallbackFails
    \/ IterateRaises
    \/ StatsRaises
    \/ MainReturn
    \/ Next

SpecMain == InitMain /\ [][NextMain]_vars

----------------------------------------------------------------------------
(* list_folder_contents's claims, under SpecListing *)

\* the lines of the view that show an entry
EntryView == SelectSeq(screen, LAMBDA l : l.kind \in {"entry_folder", "entry_file"})

MoreView == SelectSeq(screen, LAMBDA l : l.kind = "more")

\* the call has returned the listing of a path that the remote lists
Listed == pc = "list_return" /\ files_list_folder(current_path).ok

\* C15: the view shows every folder before every file, the folders and the
\* files each in ascending order of their lower-cased names, and the folder
\* shown with number i is the i-th folder of the returned list.
C15_ViewOrder ==
    Listed =>
        /\ \A i, j \in 1..Len(EntryView) :
              i < j =>
                /\ ~(EntryView[i].kind = "entry_file"
                        /\ EntryView[j].kind = "entry_folder")
                /\ EntryView[i].kind = EntryView[j].kind =>
                       StrLess(Lower(EntryView[i].text), Lower(EntryView[j].text))
        /\ \A i \in 1..Len(EntryView) :
              /\ EntryView[i].n = i
              /\ EntryView[i].kind = "entry_folder" =>
                     i <= Len(folders) /\ folders[i].name = EntryView[i].text
        /\ SortedFolders
        /\ {folders[i].name : i \in 1..Len(folders)}
              = {layout[i].name : i \in {k \in 1..Len(layout) : IsFolder(layout[k])}}
        /\ {files[i].name : i \in 1..Len(files)}
              = {layout[i].name : i \in {k \in 1..Len(layout) : IsFile(layout[k])}}

\* the listing <<"b.t", "A.t">> is shown as "A.t", "b.t"
C15_Witness ==
    /\ Listed
    /\ Len(layout) = 2
    /\ layout[1].name = <<"b", ".", "t">>
    /\ layout[2].name = <<"A", ".", "t">>
    /\ Len(screen) = 2
    /\ screen[1].text = <<"A", ".", "t">>
    /\ screen[2].text = <<"b", ".", "t">>

\* C16: with M entries and max_items = N, the view shows the first
\* min(M, N) entries of folders-then-files; when M > N it ends with the
\* overflow count M - N, and when M <= N it reports no overflow.
C16_Truncation ==
    Listed =>
        LET all_entries == folders \o files
            M == Len(all_entries)
            N == list_max
        IN  /\ M = Len(layout)
            /\ Len(EntryView) = (IF M > N THEN N ELSE M)
            /\ \A i \in 1..Len(EntryView) :
                  /\ screen[i] = EntryView[i]
                  /\ EntryView[i].text = all_entries[i].name
            /\ IF M > N
               THEN /\ Len(screen) = N + 1
                    /\ screen[N + 1] = Line("more", <<>>, M - N)
               ELSE MoreView = <<>> /\ Len(screen) = M

\* four entries were listed with max_items = 3: three are shown and one
\* more is reported
C16_Witness ==
    /\ Listed
    /\ Len(layout) = 4
    /\ list_max = 3
    /\ Len(EntryView) = 3
    /\ screen[4] = Line("more", <<>>, 1)

----------------------------------------------------------------------------
(* format_file_size's claims, under SpecFormat *)

\* the units that follow one another, PB included
AllUnits == Units \o <<"PB">>

\* the magnitude is the byte count divided by 1024 once per unit step
Magnitude ==
    /\ formatted.unit = AllUnits[Len(size_bytes.frac) + 1]
    /\ \E k \in 0..Len(AllUnits) :
          Zeros(k) \o size_arg = size_bytes.int \o size_bytes.frac

\* the magnitude lies in [1, 1024)
InRange == Len(size_bytes.int) = 1 /\ size_bytes.int[1] >= 1

\* the byte count is 1024^5 or more: B, KB, MB, GB and TB are exhausted
Exhausts == Len(size_arg) > Len(Units)

\* C17 as stated: for every byte count b >= 0 the unit is the one with the
\* magnitude in [1, 1024), and PB when the five units are exhausted.
C17_Original ==
    pc = "fmt_done" =>
        /\ Magnitude
        /\ IF Exhausts THEN formatted.unit = "PB"
           ELSE formatted.unit # "PB" /\ InRange

\* C17, amended: for every byte count b >= 1 below 1024^5 the unit is the
\* one with the magnitude in [1, 1024); 0 is shown in B with magnitude 0;
\* from 1024^5 on the unit is PB whatever the magnitude.  format(0) is
\* 0.0 B, format(1536) is 1.5 KB, format(1048576) is 1.0 MB and
\* format(1125899906842624) is 1.0 PB.
C17_UnitSelection ==
    pc = "fmt_done" =>
        /\ Magnitude
        /\ IF Exhausts THEN formatted.unit = "PB"
           ELSE IF size_arg = <<>>
           THEN formatted = [whole |-> <<>>, tenth |-> 0, unit |-> "B"]
           ELSE formatted.unit # "PB" /\ InRange
        /\ size_arg = <<1, 512>> =>
              formatted = [whole |-> <<1>>, tenth |-> 5, unit |-> "KB"]
        /\ size_arg = <<1, 0, 0>> =>
              formatted = [whole |-> <<1>>, tenth |-> 0, unit |-> "MB"]
        /\ size_arg = <<1, 0, 0, 0, 0, 0>> =>
              formatted = [whole |-> <<1>>, tenth |-> 0, unit |-> "PB"]

\* 1024^5 bytes have been formatted, after five divisions
C17_Witness ==
    /\ pc = "fmt_done"
    /\ size_arg = <<1, 0, 0, 0, 0, 0>>
    /\ formatted.unit = "PB"
    /\ Len(size_bytes.frac) = Len(Units)

----------------------------------------------------------------------------
(* main's and select_team_member's claims, under SpecMain *)

RaiseSteps == {"IterateRaises", "StatsRaises"}

\* C11 as stated: once the loop has started, a remote call that fails for
\* the shallow statistics, the listing or the deep statistics leaves the
\* program in the loop, with current_path as the iteration found it.
C11_FailuresNotFatal ==
    last \in RaiseSteps =>
        /\ pc \in {"top", "prompt", "ack", "stats_while", "stats_for"}
        /\ current_path = iter_path

\* C12 as stated: an explorer on a member's handle was started after that
\* member was selected, and the program never ends after a failed team
\* access without having tried the individual access.
C12_TeamFailureFallsBack ==
    /\ (pc \in {"top", "prompt"} /\ client # "individual") =>
          \E k \in 1..Len(members) : client = members[k]
    /\ (pc = "ended" /\ ~creds_ok) => HasLine(screen, "team_failed")
    /\ (pc = "ended" /\ HasLine(screen, "error_listing_members")) =>
          HasLine(screen, "team_failed")

\* C13 as stated: on 0 the selection returns None, on a valid index the
\* handle of that member, and after any other input it prompts again.
C13_EndsOnChoice ==
    /\ last = "Choose" =>
          IF ~IsIntLiteral(Strip(cmd)) THEN pc = "select_list"
          ELSE IF IntValue(Strip(cmd)) = 0 THEN pc = "select_none"
          ELSE IF ValidChoice(members, IntValue(Strip(cmd)))
          THEN pc = "team_account" /\ client = members[IntValue(Strip(cmd))]
          ELSE pc = "select_list"
    /\ (/\ last = "ListMembers"
        /\ \/ HasLine(screen, "invalid_selection")
           \/ HasLine(screen, "enter_valid_number"))
          => pc = "select_prompt"

====
